---- MODULE Spec2Model ----
(***************************************************************************)
(* A model of the sbrk-backed first-fit allocator of src/malloc.c.         *)
(*                                                                         *)
(* Memory is an array of cells.  One cell is one field of header_t, so a   *)
(* header occupies HSIZE = 3 consecutive cells (dsize, magic, next) and    *)
(* every size and address of the model is counted in cells.  size_t and    *)
(* pointer arithmetic is arithmetic modulo SizeMod = 2^WordBits, and the   *)
(* (int) cast of the argument of sbrk is the two's complement narrowing    *)
(* to IntBits bits.  The widths are scaled down (64 -> WordBits,           *)
(* 32 -> IntBits); the order IntBits < WordBits of the real widths is kept.*)
(***************************************************************************)
EXTENDS Integers, Naturals, FiniteSets, Sequences, TLC

\* ---------------------------------------------------------------- bounds
WordBits == 6        \* scaled width of size_t and of a pointer
IntBits == 5         \* scaled width of int
Base == 1            \* the program break before the first sbrk call
BrkLimit == 15       \* the environment refuses to move the break past this
Slack == 3           \* cells past the break that exist in the mapped page
MaxSize == 2         \* the ordinary request sizes are 0..MaxSize
MaxCalls == 4        \* the number of public calls a run makes

SizeMod == 2^WordBits
IntMod == 2^IntBits
MemTop == BrkLimit + Slack

\* ------------------------------------------------------ program constants
NULL == 0
\* sizeof(header_t), in cells: dsize at +0, magic at +1, next at +2
HSIZE == 3
\* 0xDEADC0DE as a 32-bit pattern
MAGIC == -559038242

VARIABLES
  heap_start,   \* char *heap_start
  heap_end,     \* char *heap_end
  brk,          \* the program break, owned by sbrk
  mem,          \* the cells 0..MemTop
  status,       \* "running", or how the process ended: "abort", "hang", "fault"
  calls,        \* the number of public calls made so far
  last          \* the last public call: its name, arguments, outcome and result

vars == <<heap_start, heap_end, brk, mem, status, calls, last>>

\* ------------------------------------------------------------ arithmetic
Max2(a, b) == IF a >= b THEN a ELSE b

\* size_t / pointer arithmetic wraps
Wrap(x) == x % SizeMod

\* (int) x for a size_t x
ToInt(x) == LET y == x % IntMod IN IF y >= IntMod \div 2 THEN y - IntMod ELSE y

\* ---------------------------------------------------------------- memory
\* How an access of cell a ends when the break is b: 0 the cell is granted,
\* 1 the cell lies past the break but inside the mapped page (the access may
\* fault or go through), 2 the cell is not mapped at all (the access faults).
Access(b, a) == IF a < Base \/ a > MemTop THEN 2 ELSE IF a >= b THEN 1 ELSE 0

Rd(m, a) == IF a \in DOMAIN m THEN m[a] ELSE 0

Wr(m, a, v) == IF a \in DOMAIN m THEN [m EXCEPT ![a] = v] ELSE m

\* The machine state the functions of malloc.c work on.
State(m, hs, he, b) == [m |-> m, hs |-> hs, he |-> he, brk |-> b]

\* ----------------------------------------------------------- collaborator
\* sbrk(delta): the old break on success, -1 on failure.  A request for 0
\* cells only reads the break.  grant is the environment's decision.
sbrk(b, delta, grant) ==
  IF delta = 0 THEN [ok |-> TRUE, ret |-> b, brk |-> b]
  ELSE IF grant /\ b + delta >= Base /\ b + delta <= BrkLimit
       THEN [ok |-> TRUE, ret |-> b, brk |-> b + delta]
       ELSE [ok |-> FALSE, ret |-> SizeMod - 1, brk |-> b]

\* ------------------------------------------------------------ primitives
insert_block(st, addr, dsize, prev, next) ==
  IF addr = NULL \/ st.hs = NULL
  THEN [st |-> st, abort |-> TRUE, acc |-> 0]
  ELSE LET m1 == Wr(st.m, addr, dsize)
           m2 == Wr(m1, Wrap(addr + 1), MAGIC)
           m3 == Wr(m2, Wrap(addr + 2), next)
           m4 == IF prev # NULL THEN Wr(m3, Wrap(prev + 2), addr) ELSE m3
           a3 == Max2(Access(st.brk, addr),
                      Max2(Access(st.brk, Wrap(addr + 1)), Access(st.brk, Wrap(addr + 2))))
           a4 == IF prev # NULL THEN Max2(a3, Access(st.brk, Wrap(prev + 2))) ELSE a3
       IN [st |-> [st EXCEPT !.m = m4], abort |-> FALSE, acc |-> a4]

\* init_heap that sets heap_end before it looks at what sbrk returned.
init_heap_at_end(st, initial_size, r) ==
  IF ~r.ok
  THEN [st |-> [st EXCEPT !.hs = NULL, !.he = Wrap(r.ret + initial_size)],
        abort |-> FALSE, acc |-> 0]
  ELSE LET ib == insert_block([st EXCEPT !.hs = r.ret, !.brk = r.brk], r.ret, 0, NULL, NULL)
       IN [st |-> [ib.st EXCEPT !.he = Wrap(r.ret + initial_size)],
           abort |-> ib.abort, acc |-> ib.acc]

\* init_heap after sbrk returned r.
init_heap_at(st, initial_size, r) ==
  IF ~r.ok
  THEN [st |-> [st EXCEPT !.hs = NULL], abort |-> FALSE, acc |-> 0]
  ELSE LET ib == insert_block([st EXCEPT !.hs = r.ret, !.brk = r.brk], r.ret, 0, NULL, NULL)
       IN [st |-> [ib.st EXCEPT !.he = Wrap(r.ret + initial_size)],
           abort |-> ib.abort, acc |-> ib.acc]

init_heap(st, bsize, grant) ==
  init_heap_at(st, Wrap(HSIZE + bsize), sbrk(st.brk, ToInt(Wrap(HSIZE + bsize)), grant))

\* expand_heap with heap_end advanced before the result of sbrk is known.
expand_heap_early(st, block_start, bsize, grant) ==
  IF block_start = NULL \/ st.hs = NULL
  THEN [st |-> st, rc |-> 0, abort |-> TRUE]
  ELSE LET block_end == Wrap(block_start + bsize)
       IN IF block_end > st.he
          THEN LET expansion == Wrap(block_end - st.he)
                   r == sbrk(st.brk, ToInt(expansion), grant)
               IN IF ~r.ok
                  THEN [st |-> [st EXCEPT !.he = Wrap(st.he + expansion)],
                        rc |-> -1, abort |-> FALSE]
                  ELSE [st |-> [st EXCEPT !.he = Wrap(st.he + expansion), !.brk = r.brk],
                        rc |-> 0, abort |-> FALSE]
          ELSE [st |-> st, rc |-> 0, abort |-> FALSE]

expand_heap(st, block_start, bsize, grant) ==
  IF block_start = NULL \/ st.hs = NULL
  THEN [st |-> st, rc |-> 0, abort |-> TRUE]
  ELSE LET block_end == Wrap(block_start + bsize)
       IN IF block_end > st.he
          THEN LET expansion == Wrap(block_end - st.he)
                   r == sbrk(st.brk, ToInt(expansion), grant)
               IN IF ~r.ok
                  THEN [st |-> st, rc |-> -1, abort |-> FALSE]
                  ELSE [st |-> [st EXCEPT !.he = Wrap(st.he + expansion), !.brk = r.brk],
                        rc |-> 0, abort |-> FALSE]
          ELSE [st |-> st, rc |-> 0, abort |-> FALSE]

valid_header(st, hptr) ==
  IF hptr = NULL THEN TRUE
  ELSE IF hptr >= st.hs /\ hptr <= Wrap(st.he - HSIZE)
       THEN Rd(st.m, Wrap(hptr + 1)) = MAGIC
       ELSE FALSE

\* The access valid_header makes: it reads hptr->magic only inside the bounds.
valid_header_acc(st, hptr) ==
  IF hptr # NULL /\ hptr >= st.hs /\ hptr <= Wrap(st.he - HSIZE)
  THEN Access(st.brk, Wrap(hptr + 1)) ELSE 0

\* The for (;;) loop of find_opening from curr on.  seen holds the headers
\* already visited: the loop reads and never writes, so meeting one of them
\* again means that it never ends.
RECURSIVE find_opening_loop(_, _, _, _, _)
find_opening_loop(st, bsize, curr, seen, acc) ==
  LET curr_block_size == Wrap(HSIZE + Rd(st.m, curr))
      nxt == Rd(st.m, Wrap(curr + 2))
      curr_block_end == Wrap(curr + curr_block_size)
      open_space == Wrap(nxt - curr_block_end)
      a1 == Max2(acc, Max2(Access(st.brk, curr), Access(st.brk, Wrap(curr + 2))))
  IN IF curr \in seen
     THEN [out |-> "hang", addr |-> NULL, prev |-> NULL, next |-> NULL, acc |-> acc]
     ELSE IF nxt = NULL
     THEN [out |-> "ok", addr |-> curr_block_end, prev |-> curr, next |-> NULL, acc |-> a1]
     ELSE IF open_space >= bsize
     THEN [out |-> "ok", addr |-> curr_block_end, prev |-> curr, next |-> nxt, acc |-> a1]
     ELSE IF ~valid_header(st, nxt)
     THEN [out |-> "ok", addr |-> NULL, prev |-> NULL, next |-> NULL,
           acc |-> Max2(a1, valid_header_acc(st, nxt))]
     ELSE find_opening_loop(st, bsize, nxt, seen \cup {curr},
                            Max2(a1, valid_header_acc(st, nxt)))

find_opening(st, bsize) ==
  IF st.hs = NULL
  THEN [out |-> "abort", addr |-> NULL, prev |-> NULL, next |-> NULL, acc |-> 0]
  ELSE find_opening_loop(st, bsize, st.hs, {}, 0)

\* can_expand that writes the new dsize itself and reports a refused
\* extension of the heap as no room.
can_expand_eager(st, block, s, grant) ==
  IF block = NULL \/ st.hs = NULL
  THEN [st |-> st, ok |-> FALSE, abort |-> TRUE, acc |-> 0, refused |-> FALSE]
  ELSE LET new_block_end == Wrap(block + HSIZE + s)
           nxt == Rd(st.m, Wrap(block + 2))
           a == Access(st.brk, Wrap(block + 2))
           sized == [st EXCEPT !.m = Wr(st.m, block, s)]
       IN IF nxt = NULL
          THEN LET e == expand_heap(sized, block, Wrap(s + HSIZE), grant)
               IN [st |-> e.st, ok |-> e.rc = 0, abort |-> e.abort, acc |-> a,
                   refused |-> e.rc = -1]
          ELSE [st |-> sized, ok |-> Wrap(nxt - new_block_end) >= 0, abort |-> FALSE,
                acc |-> a, refused |-> FALSE]

can_expand(st, block, s, grant) ==
  IF block = NULL \/ st.hs = NULL
  THEN [st |-> st, ok |-> FALSE, abort |-> TRUE, acc |-> 0, refused |-> FALSE]
  ELSE LET new_block_end == Wrap(block + HSIZE + s)
           nxt == Rd(st.m, Wrap(block + 2))
           a == Access(st.brk, Wrap(block + 2))
       IN IF nxt = NULL
          THEN LET e == expand_heap(st, block, Wrap(s + HSIZE), grant)
               IN [st |-> e.st, ok |-> TRUE, abort |-> e.abort, acc |-> a, refused |-> e.rc = -1]
          ELSE [st |-> st, ok |-> Wrap(nxt - new_block_end) >= 0, abort |-> FALSE, acc |-> a,
                refused |-> FALSE]

\* The while loop of find_block from curr on; blk is the value returned:
\* the header found, NULL, or (void *) -1.
RECURSIVE find_block_loop(_, _, _, _, _, _)
find_block_loop(st, target, curr, prev, seen, acc) ==
  IF curr = NULL
  THEN [out |-> "ok", blk |-> NULL, prev |-> prev, acc |-> acc]
  ELSE IF curr = target
  THEN [out |-> "ok", blk |-> curr, prev |-> prev, acc |-> acc]
  ELSE IF curr \in seen
  THEN [out |-> "hang", blk |-> NULL, prev |-> prev, acc |-> acc]
  ELSE LET nxt == Rd(st.m, Wrap(curr + 2))
           a1 == Max2(acc, Max2(Access(st.brk, Wrap(curr + 2)), valid_header_acc(st, nxt)))
       IN IF ~valid_header(st, nxt)
          THEN [out |-> "ok", blk |-> SizeMod - 1, prev |-> curr, acc |-> a1]
          ELSE find_block_loop(st, target, nxt, curr, seen \cup {curr}, a1)

find_block(st, target) ==
  IF st.hs = NULL \/ target = NULL
  THEN [out |-> "abort", blk |-> NULL, prev |-> NULL, acc |-> 0]
  ELSE find_block_loop(st, target, st.hs, NULL, {}, 0)

\* ------------------------------------------------------ public functions
\* The result of a public function: the state it leaves, the value it
\* returns, how it ended, the worst memory access it made, and whether sbrk
\* refused a request it made.
Res(st, ret, out, acc, refused) ==
  [st |-> st, ret |-> ret, out |-> out, acc |-> acc, refused |-> refused]

\* custom_malloc, last step: the header is written and linked (ib).
malloc_link(ib, addr, a1) ==
  IF ib.abort THEN Res(ib.st, NULL, "abort", a1, FALSE)
  ELSE Res(ib.st, Wrap(addr + HSIZE), "ok", Max2(a1, ib.acc), FALSE)

\* custom_malloc after the heap was extended (e) for the opening o.
malloc_grow(e, o, s, a1) ==
  IF e.abort THEN Res(e.st, NULL, "abort", a1, FALSE)
  ELSE IF e.rc = -1 THEN Res(e.st, NULL, "grow_refused", a1, TRUE)
  ELSE malloc_link(insert_block(e.st, o.addr, s, o.prev, o.next), o.addr, a1)

\* custom_malloc after find_opening returned o.
malloc_place(st, o, s, bsize, just_initialized, grant, a1) ==
  IF o.out # "ok" THEN Res(st, NULL, o.out, a1, FALSE)
  ELSE IF o.addr = NULL THEN Res(st, NULL, "corrupt", a1, FALSE)
  ELSE malloc_grow(IF o.next = NULL /\ ~just_initialized
                   THEN expand_heap(st, o.addr, bsize, grant)
                   ELSE [st |-> st, rc |-> 0, abort |-> FALSE],
                   o, s, a1)

\* custom_malloc after find_opening returned o in the heap i leaves.
malloc_found(i, o, s, bsize, just_initialized, grant) ==
  malloc_place(i.st, o, s, bsize, just_initialized, grant, Max2(i.acc, o.acc))

\* custom_malloc after the heap was initialised if it had to be (i).
malloc_search(i, s, bsize, just_initialized, grant) ==
  IF i.abort THEN Res(i.st, NULL, "abort", i.acc, FALSE)
  ELSE IF i.st.hs = NULL THEN Res(i.st, NULL, "init_failed", i.acc, TRUE)
  ELSE malloc_found(i, find_opening(i.st, bsize), s, bsize, just_initialized, grant)

custom_malloc(st, s, grant) ==
  malloc_search(IF st.hs = NULL THEN init_heap(st, Wrap(HSIZE + s), grant)
                ELSE [st |-> st, abort |-> FALSE, acc |-> 0],
                s, Wrap(HSIZE + s), st.hs = NULL, grant)

\* custom_free after find_block returned f.
free_found(st, f) ==
  IF f.out # "ok" THEN Res(st, NULL, f.out, f.acc, FALSE)
  ELSE IF f.blk = NULL THEN Res(st, NULL, "notfound", f.acc, FALSE)
  ELSE IF f.blk = SizeMod - 1 THEN Res(st, NULL, "corrupt", f.acc, FALSE)
  ELSE Res([st EXCEPT !.m = Wr(st.m, Wrap(f.prev + 2), Rd(st.m, Wrap(f.blk + 2)))],
           NULL, "freed",
           Max2(f.acc, Max2(Access(st.brk, Wrap(f.blk + 2)), Access(st.brk, Wrap(f.prev + 2)))),
           FALSE)

custom_free(st, p) ==
  IF p = NULL THEN Res(st, NULL, "null", 0, FALSE)
  ELSE IF st.hs = NULL \/ Wrap(p - HSIZE) = st.hs THEN Res(st, NULL, "invalid", 0, FALSE)
  ELSE free_found(st, find_block(st, Wrap(p - HSIZE)))

\* memset(array, 0, size): the cells array .. array + size - 1 (wrapping)
memset0(m, array, size) ==
  [a \in DOMAIN m |-> IF Wrap(a - array) < size THEN 0 ELSE m[a]]

\* memcpy(dst, src, n) of regions that do not overlap: cell dst + i takes the
\* value of cell src + i.
memcpy(m, dst, src, n) ==
  [a \in DOMAIN m |-> IF Wrap(a - dst) < n THEN Rd(m, Wrap(src + Wrap(a - dst))) ELSE m[a]]

\* The worst access among the n cells from a on.
RangeAcc(b, a, n) ==
  IF \E i \in 0..(n - 1) : Access(b, Wrap(a + i)) = 2 THEN 2
  ELSE IF \E i \in 0..(n - 1) : Access(b, Wrap(a + i)) = 1 THEN 1
  ELSE 0

\* custom_calloc after custom_malloc returned r.
calloc_zero(r, size) ==
  IF r.out # "ok" THEN r
  ELSE Res([r.st EXCEPT !.m = memset0(r.st.m, r.ret, size)], r.ret, "ok",
           Max2(r.acc, RangeAcc(r.st.brk, r.ret, size)), FALSE)

custom_calloc(st, nmemb, s, grant) ==
  IF nmemb = 0 \/ s = 0 THEN Res(st, NULL, "invalid_size", 0, FALSE)
  ELSE calloc_zero(custom_malloc(st, Wrap(nmemb * s), grant), Wrap(nmemb * s))

\* custom_realloc, copy path, after the old block was freed (fr).
realloc_release(fr, new, a2) ==
  IF fr.out \in {"abort", "hang"} THEN Res(fr.st, NULL, fr.out, Max2(a2, fr.acc), FALSE)
  ELSE Res(fr.st, new, "moved", Max2(a2, fr.acc), FALSE)

\* custom_realloc, copy path, after the data was copied into the new block new.
realloc_copied(st, new, p, a2) ==
  realloc_release(custom_free(st, p), new, a2)

\* custom_realloc, copy path, after custom_malloc returned n; old is the header
\* of p, and old->dsize is read after the allocation.
realloc_copy(n, p, old, a1) ==
  IF n.out \in {"abort", "hang"} THEN Res(n.st, NULL, n.out, Max2(a1, n.acc), n.refused)
  ELSE IF n.ret = NULL THEN Res(n.st, NULL, "alloc_failed", Max2(a1, n.acc), n.refused)
  ELSE realloc_copied(
         [n.st EXCEPT !.m = memcpy(n.st.m, n.ret, p, Rd(n.st.m, old))], n.ret, p,
         Max2(Max2(a1, n.acc),
              Max2(RangeAcc(n.st.brk, n.ret, Rd(n.st.m, old)),
                   RangeAcc(n.st.brk, p, Rd(n.st.m, old)))))

\* custom_realloc that stores the new size at the data address of the block.
realloc_resize_data(c, old, p, s, grant, a1) ==
  IF c.abort THEN Res(c.st, NULL, "abort", a1, FALSE)
  ELSE IF c.ok
  THEN Res([c.st EXCEPT !.m = Wr(c.st.m, Wrap(old + HSIZE), s)], Wrap(old + HSIZE), "inplace",
           Max2(Max2(a1, c.acc), Access(c.st.brk, old)), c.refused)
  ELSE realloc_copy(custom_malloc(c.st, s, grant), p, old, a1)

\* custom_realloc after can_expand returned c for the block old.
realloc_resize(c, old, p, s, grant, a1) ==
  IF c.abort THEN Res(c.st, NULL, "abort", a1, FALSE)
  ELSE IF c.ok
  THEN Res([c.st EXCEPT !.m = Wr(c.st.m, old, s)], Wrap(old + HSIZE), "inplace",
           Max2(Max2(a1, c.acc), Access(c.st.brk, old)), c.refused)
  ELSE realloc_copy(custom_malloc(c.st, s, grant), p, old, a1)

\* custom_realloc after find_block returned f.
realloc_found(st, f, p, s, grant) ==
  IF f.out # "ok" THEN Res(st, NULL, f.out, f.acc, FALSE)
  ELSE IF f.blk = NULL THEN Res(st, NULL, "notfound", f.acc, FALSE)
  ELSE IF f.blk = SizeMod - 1 THEN Res(st, NULL, "corrupt", f.acc, FALSE)
  ELSE realloc_resize(can_expand(st, f.blk, s, grant), f.blk, p, s, grant, f.acc)

custom_realloc(st, p, s, grant) ==
  IF p = NULL THEN custom_malloc(st, s, grant)
  ELSE IF s = 0 THEN custom_free(st, p)
  ELSE realloc_found(st, find_block(st, Wrap(p - HSIZE)), p, s, grant)

\* ----------------------------------------------------------------- inputs
\* The ordinary request sizes.
OrdSizes == 0..MaxSize

\* The two ends of the range of sizes for which sizeof(header_t) + s wraps
\* (to 0 and to HSIZE - 1).
WrapSizes == {SizeMod - HSIZE, SizeMod - 1}

Sizes == OrdSizes \cup WrapSizes

\* The size that the (int) cast of the argument of sbrk turns into 0.
NarrowSizes == {IntMod}

IntSizes == OrdSizes \cup NarrowSizes

\* calloc arguments: small counts, and half the word, whose product with 2 wraps.
OrdCounts == 0..2

Counts == OrdCounts \cup {SizeMod \div 2}

\* Pointer arguments: every cell address, whether or not malloc returned it.
Ptrs == 0..MemTop

\* ------------------------------------------------------------ the machine
Cur == State(mem, heap_start, heap_end, brk)

\* What last keeps of a call: its name, whether its pointer argument was NULL
\* and its size argument 0, how it ended (out), what it returned (ret) and
\* whether sbrk refused it room.  The exact arguments p, n, s are kept of a
\* call that changed the heap or ended the process, and are 0 otherwise.
Call(op, p, n, s, out, ret, refused, keep) ==
  [op |-> op, nullp |-> p = NULL, zeros |-> s = 0,
   p |-> IF keep THEN p ELSE 0, n |-> IF keep THEN n ELSE 0, s |-> IF keep THEN s ELSE 0,
   out |-> out, ret |-> ret, refused |-> refused]

Ended(out) == out \in {"abort", "hang", "fault"}

Acted(out) == out \in {"ok", "freed", "inplace", "moved"}

Init ==
  /\ heap_start = NULL
  /\ heap_end = NULL
  /\ brk = Base
  /\ mem = [a \in 0..MemTop |-> 0]
  /\ status = "running"
  /\ calls = 0
  /\ last = Call("none", NULL, 0, 0, "none", NULL, FALSE, FALSE)

\* The process runs a public call to its end.  A call that touched a cell past
\* the break may have faulted (crash); one that touched an unmapped cell has.
\* A failed assertion, an endless loop and a fault end the process.
Finish(r, op, p, n, s, crash) ==
  LET faulted == r.acc = 2 \/ (r.acc = 1 /\ crash)
      out == IF faulted THEN "fault" ELSE r.out
      st == IF faulted THEN Cur ELSE r.st
  IN /\ calls' = calls + 1
     /\ status' = IF Ended(out) THEN out ELSE "running"
     /\ mem' = st.m
     /\ heap_start' = st.hs
     /\ heap_end' = st.he
     /\ brk' = st.brk
     /\ last' = Call(op, p, n, s, out, IF faulted THEN NULL ELSE r.ret,
                     r.refused /\ ~faulted, Acted(out) \/ Ended(out))

\* A call can be made while the process runs; a run makes at most MaxCalls.
CanCall == status = "running" /\ calls < MaxCalls

\* The outcomes of the fault a call may have run into.
Crashes(r) == IF r.acc = 1 THEN BOOLEAN ELSE {FALSE}

\* The decisions of the environment that matter to a call, given its result
\* r when every request is granted: when the break did not move, no request
\* was made (or the limit refused it), and a refusal changes nothing.
Grants(r) == IF r.st.brk # brk THEN BOOLEAN ELSE {TRUE}

MallocOf(S) ==
  /\ CanCall
  /\ \E s \in S :
       LET g == custom_malloc(Cur, s, TRUE)
       IN \E grant \in Grants(g) :
            LET r == IF grant THEN g ELSE custom_malloc(Cur, s, FALSE)
            IN \E crash \in Crashes(r) : Finish(r, "malloc", NULL, 0, s, crash)

CallocOf(C) ==
  /\ CanCall
  /\ \E n \in C, s \in C :
       LET g == custom_calloc(Cur, n, s, TRUE)
       IN \E grant \in Grants(g) :
            LET r == IF grant THEN g ELSE custom_calloc(Cur, n, s, FALSE)
            IN \E crash \in Crashes(r) : Finish(r, "calloc", NULL, n, s, crash)

ReallocOf(S) ==
  /\ CanCall
  /\ \E p \in Ptrs, s \in S :
       LET g == custom_realloc(Cur, p, s, TRUE)
       IN \E grant \in Grants(g) :
            LET r == IF grant THEN g ELSE custom_realloc(Cur, p, s, FALSE)
            IN \E crash \in Crashes(r) : Finish(r, "realloc", p, 0, s, crash)

Free ==
  /\ CanCall
  /\ \E p \in Ptrs :
       LET r == custom_free(Cur, p)
       IN \E crash \in Crashes(r) : Finish(r, "free", p, 0, 0, crash)

Malloc == MallocOf(Sizes)

Calloc == CallocOf(Counts)

Realloc == ReallocOf(Sizes)

\* Every public function, every argument.
Next == Malloc \/ Calloc \/ Realloc \/ Free

Spec == Init /\ [][Next]_vars

MallocOrd == MallocOf(OrdSizes)

CallocOrd == CallocOf(OrdCounts)

ReallocOrd == ReallocOf(OrdSizes)

\* Every public function, with ordinary sizes only: no size computation wraps.
NextOrd == MallocOrd \/ CallocOrd \/ ReallocOrd \/ Free

SpecOrd == Init /\ [][NextOrd]_vars

\* Only malloc, calloc and free, every argument.
NextAF == Malloc \/ Calloc \/ Free

SpecAF == Init /\ [][NextAF]_vars

MallocInt == MallocOf(IntSizes)

ReallocInt == ReallocOf(IntSizes)

\* Every public function, with the ordinary sizes and a size that does not
\* fit an int: no sum of sizes wraps, the cast of the sbrk argument narrows.
NextInt == MallocInt \/ CallocOrd \/ ReallocInt \/ Free

SpecInt == Init /\ [][NextInt]_vars

\* ------------------------------------------------------------- the types
TypeOK ==
  /\ heap_start \in 0..(SizeMod - 1)
  /\ heap_end \in 0..(SizeMod - 1)
  /\ brk \in Base..BrkLimit
  /\ DOMAIN mem = 0..MemTop
  /\ status \in {"running", "abort", "hang", "fault"}
  /\ calls \in 0..MaxCalls

\* ------------------------------------------------------- the header list
DsizeOf(m, h) == Rd(m, h)

NextOf(m, h) == Rd(m, Wrap(h + 2))

\* The headers met by following next from curr, in order, each once.
RECURSIVE ChainFrom(_, _, _)
ChainFrom(m, curr, seen) ==
  IF curr = NULL \/ curr \in seen \/ curr \notin DOMAIN m THEN <<>>
  ELSE <<curr>> \o ChainFrom(m, NextOf(m, curr), seen \cup {curr})

\* The list of headers, from the dummy head at heap_start.
List(st) == IF st.hs = NULL THEN <<>> ELSE ChainFrom(st.m, st.hs, {})

Linked(st) == {List(st)[i] : i \in 1..Len(List(st))}

\* The live blocks: the linked headers other than the dummy head.
Live(st) == Linked(st) \ {st.hs}

\* One past the last data cell of the block of header h.
EndOf(st, h) == h + HSIZE + DsizeOf(st.m, h)

\* The cells of the block of header h: its header and its data.
Region(st, h) == h..(EndOf(st, h) - 1)

\* The state after the step.
After == State(mem', heap_start', heap_end', brk')

\* A step that is a public call.
CallStep(op) == calls' = calls + 1 /\ last'.op = op

HeapUnchanged == UNCHANGED <<mem, heap_start, heap_end>>

\* ------------------------------------------------------------ the claims

\* C1: every header linked in the list ends before its successor starts, and
\* the last one ends before heap_end:
\* address + sizeof(header_t) + dsize <= address of next, or <= heap_end.
C1_BlocksFit ==
  \A h \in Linked(Cur) :
    EndOf(Cur, h) <= (IF NextOf(mem, h) # NULL THEN NextOf(mem, h) ELSE heap_end)

\* The size of the data region a successful malloc or calloc call gives.
AllocSize(l) == IF l.op = "calloc" THEN Wrap(l.n * l.s) ELSE l.s

\* C2: in runs of malloc, calloc and free alone, the block (header and data)
\* of a successful allocation overlaps no block that was linked when the call
\* was made, and the call leaves the data cells of those blocks as they were.
C2_AllocationDisjoint ==
  [][ (calls' = calls + 1 /\ last'.op \in {"malloc", "calloc"} /\ last'.out = "ok")
      => \A h \in Linked(Cur) :
           /\ Region(Cur, h) \cap ((last'.ret - HSIZE)..(last'.ret + AllocSize(last') - 1)) = {}
           /\ \A a \in ((h + HSIZE)..(EndOf(Cur, h) - 1)) \cap DOMAIN mem : mem'[a] = mem[a]
    ]_vars

\* C3: realloc(p, s) of a live block with a successor header, with s > 0 and
\* p + s past the successor header, does not return p, and leaves the cells
\* of the successor block as they were.
C3_NoGrowthOverSuccessor ==
  [][ (/\ CallStep("realloc") /\ last'.s > 0
       /\ Wrap(last'.p - HSIZE) \in Live(Cur)
       /\ NextOf(mem, Wrap(last'.p - HSIZE)) # NULL
       /\ last'.p + last'.s > NextOf(mem, Wrap(last'.p - HSIZE)))
      => /\ last'.ret # last'.p
         /\ \A a \in Region(Cur, NextOf(mem, Wrap(last'.p - HSIZE))) \cap DOMAIN mem :
              mem'[a] = mem[a]
    ]_vars

\* C4: realloc(p, s) of the last live block, when sbrk refuses the room the
\* new size needs, returns NULL and leaves memory, heap_start and heap_end as
\* they were.
C4_RefusedGrowthFails ==
  [][ (/\ CallStep("realloc") /\ last'.s > 0 /\ last'.refused
       /\ Wrap(last'.p - HSIZE) \in Live(Cur)
       /\ NextOf(mem, Wrap(last'.p - HSIZE)) = NULL)
      => last'.ret = NULL /\ HeapUnchanged
    ]_vars

\* C5: a realloc(p, s) call with p # NULL and s > 0 that returns NULL leaves
\* every cell (so every header, link and dsize), heap_start, heap_end and the
\* break as they were; a block that was linked is still linked.
C5_FailedReallocKeepsHeap ==
  [][ (/\ CallStep("realloc") /\ ~last'.nullp /\ ~last'.zeros
       /\ status' = "running" /\ last'.ret = NULL)
      => HeapUnchanged /\ brk' = brk /\ List(After) = List(Cur)
    ]_vars

\* C5 happens: a realloc of a non-null pointer with a non-zero size returned
\* NULL while a block was live.
C5_Witness ==
  /\ last.op = "realloc" /\ ~last.nullp /\ ~last.zeros
  /\ status = "running" /\ last.ret = NULL
  /\ Live(Cur) # {}

\* C6: a malloc call on an initialised heap that returns NULL because sbrk
\* refused to extend the heap leaves every cell, heap_start, heap_end and the
\* break as they were; every block that was linked is still linked.
C6_RefusedMallocKeepsHeap ==
  [][ (/\ CallStep("malloc") /\ heap_start # NULL
       /\ last'.refused /\ status' = "running" /\ last'.ret = NULL)
      => HeapUnchanged /\ brk' = brk /\ List(After) = List(Cur)
    ]_vars

\* C6 happens: malloc on an initialised heap with a live block was refused.
C6_Witness ==
  /\ last.op = "malloc" /\ last.refused /\ last.ret = NULL
  /\ status = "running" /\ heap_start # NULL /\ Live(Cur) # {}

\* C7: no call ends in a failed assertion.
C7_NoAssertionFails == status # "abort"

\* The gap between the block of the i-th header of the list and the next one.
GapAfter(st, i) == List(st)[i + 1] - EndOf(st, List(st)[i])

\* The gaps between linked blocks that hold need cells.
Fitting(st, need) == {i \in 1..(Len(List(st)) - 1) : GapAfter(st, i) >= need}

\* Where first fit puts a block of s data cells: the start of the lowest
\* gap that holds it, else the end of the last block.
FirstFit(st, s) ==
  IF Fitting(st, HSIZE + s) # {}
  THEN EndOf(st, List(st)[CHOOSE i \in Fitting(st, HSIZE + s) :
                            \A j \in Fitting(st, HSIZE + s) :
                              EndOf(st, List(st)[i]) <= EndOf(st, List(st)[j])])
  ELSE EndOf(st, List(st)[Len(List(st))])

\* C8: on an initialised heap a successful malloc(s) puts the new header at
\* the start of the lowest-addressed gap between linked blocks of at least
\* sizeof(header_t) + s cells, and after the last block only when there is none.
C8_FirstFit ==
  [][ (CallStep("malloc") /\ last'.out = "ok" /\ heap_start # NULL)
      => last'.ret - HSIZE = FirstFit(Cur, last'.s)
    ]_vars

\* C8's scenario happens: a = malloc(2), b = malloc(2), free(a), and a
\* malloc(1) that returns a, in the gap before b.
C8_GapReused ==
  /\ calls = 4 /\ last.op = "malloc" /\ last.out = "ok" /\ last.s = 1
  /\ last.ret = Base + 2 * HSIZE
  /\ List(Cur) = <<Base, Base + HSIZE, Base + 2 * HSIZE + 2>>
  /\ DsizeOf(mem, Base + 2 * HSIZE + 2) = 2

\* C9: free(p) of a pointer that is not the data address of a live block
\* (NULL, never returned, already freed, the dummy head's, or any pointer
\* before the heap exists) returns, and leaves memory, heap_start and
\* heap_end as they were.
C9_BadFreeIsNoOp ==
  [][ (CallStep("free") /\ Wrap(last'.p - HSIZE) \notin Live(Cur))
      => status' = "running" /\ HeapUnchanged
    ]_vars

\* seq without h
Without(seq, h) == SelectSeq(seq, LAMBDA x : x # h)

\* C10: free(p) of a live block unlinks exactly the header p - sizeof(header_t):
\* the list after is the list before without it, the sizes of the other
\* headers, heap_start and heap_end are as they were.
C10_FreeUnlinksOne ==
  [][ (CallStep("free") /\ Wrap(last'.p - HSIZE) \in Live(Cur))
      => /\ Wrap(last'.p - HSIZE) \notin Linked(After)
         /\ List(After) = Without(List(Cur), Wrap(last'.p - HSIZE))
         /\ \A k \in Linked(Cur) \ {Wrap(last'.p - HSIZE)} : DsizeOf(mem', k) = DsizeOf(mem, k)
         /\ heap_start' = heap_start /\ heap_end' = heap_end
    ]_vars

\* C11: a malloc on a heap that was never initialised, whose sbrk request is
\* refused, returns NULL and leaves heap_start and heap_end NULL and every
\* cell as it was (no header exists); and the malloc that follows such a
\* failure, when its sbrk request is granted, returns a pointer that is not
\* NULL and leaves heap_start set.
C11_InitFailureThenRetry ==
  [][ (CallStep("malloc") /\ heap_start = NULL)
      => /\ last'.refused
            => /\ status' = "running" /\ last'.ret = NULL
               /\ heap_start' = NULL /\ heap_end' = NULL /\ mem' = mem
         /\ (last.op = "malloc" /\ last.out = "init_failed" /\ ~last'.refused)
            => /\ status' = "running" /\ last'.ret # NULL
               /\ heap_start' # NULL /\ Linked(After) # {}
    ]_vars

\* C12: the list starts at the dummy head at heap_start, whose dsize is 0,
\* and every linked header lies at a lower address than its successor.
C12_ListAscending ==
  heap_start # NULL
  => /\ DsizeOf(mem, heap_start) = 0
     /\ \A h \in Linked(Cur) : NextOf(mem, h) # NULL => h < NextOf(mem, h)

\* The lesser of two sizes.
Min2(a, b) == IF a <= b THEN a ELSE b

\* C13: a realloc(p, s) of a live block with s > 0 that returns q # NULL leaves
\* in the first min(old dsize, s) cells at q what those cells at p held
\* before the call.
C13_ReallocKeepsData ==
  [][ (/\ CallStep("realloc") /\ last'.s > 0 /\ status' = "running"
       /\ Wrap(last'.p - HSIZE) \in Live(Cur)
       /\ last'.ret # NULL)
      => \A i \in 0..(Min2(DsizeOf(mem, Wrap(last'.p - HSIZE)), last'.s) - 1) :
           Rd(mem', Wrap(last'.ret + i)) = Rd(mem, Wrap(last'.p + i))
    ]_vars

\* C13 happens: after two allocations, the first of 2 cells, a realloc of the
\* first block to 1 cell returned a pointer.
C13_Witness ==
  /\ calls = 3 /\ last.op = "realloc" /\ last.s = 1 /\ last.ret # NULL
  /\ last.p = Base + 2 * HSIZE
  /\ List(Cur) = <<Base, Base + HSIZE, Base + 2 * HSIZE + 2>>

\* C14: a successful calloc(n, s) with n > 0 and s > 0 returns a block whose
\* dsize is the product n * s of the integers n and s, and whose n * s data
\* cells are all 0.
C14_CallocSize ==
  [][ (CallStep("calloc") /\ last'.out = "ok")
      => /\ DsizeOf(mem', Wrap(last'.ret - HSIZE)) = last'.n * last'.s
         /\ \A i \in 0..(last'.n * last'.s - 1) : Rd(mem', last'.ret + i) = 0
    ]_vars

\* C15: once heap_start is not NULL it never changes; heap_end never
\* decreases; and heap_end changes only in a call whose sbrk request was not
\* refused.
C15_BoundsMonotonic ==
  [][ /\ heap_start # NULL => heap_start' = heap_start
      /\ heap_end' >= heap_end
      /\ heap_end' # heap_end => ~last'.refused /\ calls' = calls + 1
    ]_vars

\* C15 happens: on a heap that holds an earlier block, a malloc was placed
\* after the last block and heap_end was moved to the end of the new block.
C15_Witness ==
  /\ last.op = "malloc" /\ last.out = "ok" /\ ~last.refused
  /\ heap_start = Base /\ Len(List(Cur)) >= 3
  /\ NextOf(mem, Wrap(last.ret - HSIZE)) = NULL
  /\ heap_end = last.ret + last.s /\ heap_end = brk

\* C16: realloc(p, s) of a live block with 0 < s <= its dsize returns p, and
\* changes nothing but the dsize of that header, which becomes s.
C16_ShrinkInPlace ==
  [][ (/\ CallStep("realloc") /\ last'.s > 0
       /\ Wrap(last'.p - HSIZE) \in Live(Cur)
       /\ last'.s <= DsizeOf(mem, Wrap(last'.p - HSIZE)))
      => /\ status' = "running" /\ last'.ret = last'.p
         /\ mem' = [mem EXCEPT ![Wrap(last'.p - HSIZE)] = last'.s]
         /\ heap_start' = heap_start /\ heap_end' = heap_end
    ]_vars

\* C16's scenario happens: a malloc(2) and then a realloc of its block to 1
\* cell, which returned the same pointer.
C16_Shrunk ==
  /\ calls = 2 /\ last.op = "realloc" /\ last.out = "inplace" /\ last.s = 1
  /\ last.p = Base + 2 * HSIZE /\ last.ret = last.p
  /\ heap_end = Base + 2 * HSIZE + 2
  /\ DsizeOf(mem, Base + HSIZE) = 1

\* The places of the list whose header links to a corrupted header: one that
\* fails the validity check (address outside heap_start .. heap_end -
\* sizeof(header_t), or a tag that is not MAGIC).
BadLinks(st) ==
  {i \in 1..Len(List(st)) : ~valid_header(st, NextOf(st.m, List(st)[i]))}

\* The list is not corrupted: every link leads to a valid header, and the
\* last one to NULL.
Uncorrupted(st) ==
  /\ st.hs # NULL /\ BadLinks(st) = {}
  /\ NextOf(st.m, List(st)[Len(List(st))]) = NULL

\* A traversal that looks for the header t meets a corrupted header first.
LookupMeetsBad(st, t) ==
  \E k \in BadLinks(st) : \A j \in 1..k : List(st)[j] # t

\* A traversal that looks for a gap of need cells meets a corrupted header
\* first: no gap before it holds need cells.
SearchMeetsBad(st, need) ==
  \E k \in BadLinks(st) :
    \A j \in 1..k : NextOf(st.m, List(st)[j]) - EndOf(st, List(st)[j]) < need

\* The call of the step returned NULL (or nothing) and changed nothing.
FailedQuietly == status' = "running" /\ last'.ret = NULL /\ HeapUnchanged

\* C17: when the traversal of a malloc, realloc or free call meets a
\* corrupted header before it finds its gap or its target, the call returns
\* NULL (free: nothing) and changes no cell and no heap bound; and a realloc
\* or free of a pointer whose header is not linked, in a list that is not
\* corrupted, does the same, and not with the outcome of a corrupted heap.
\* The pointers are those whose header address p - sizeof(header_t) is not NULL.
C17_CorruptionIsQuiet ==
  [][ /\ (CallStep("malloc") /\ SearchMeetsBad(Cur, HSIZE + last'.s)) => FailedQuietly
      /\ (/\ last'.op \in {"realloc", "free"} /\ calls' = calls + 1
          /\ ~last'.nullp /\ last'.p # HSIZE
          /\ (last'.op = "realloc" => ~last'.zeros)
          /\ LookupMeetsBad(Cur, Wrap(last'.p - HSIZE))) => FailedQuietly
      /\ (/\ last'.op \in {"realloc", "free"} /\ calls' = calls + 1
          /\ ~last'.nullp /\ last'.p # HSIZE
          /\ Uncorrupted(Cur) /\ Wrap(last'.p - HSIZE) \notin Linked(Cur))
         => FailedQuietly /\ last'.out # "corrupt"
    ]_vars

\* C18: every call returns: no call loops for ever, and the list is acyclic
\* (following next from the dummy head never meets a header twice).
C18_CallsTerminate ==
  /\ status # "hang"
  /\ \A h \in Linked(Cur) : NextOf(mem, h) \notin Linked(Cur)
                            \/ \E i \in 1..(Len(List(Cur)) - 1) :
                                 List(Cur)[i] = h /\ List(Cur)[i + 1] = NextOf(mem, h)

\* C19: every header linked in the list other than the dummy head passes the
\* validity check, and no call ends with the outcome of a corrupted heap.
C19_NoSelfCorruption ==
  /\ \A h \in Live(Cur) : valid_header(Cur, h)
  /\ last.out # "corrupt"

\* C20: on an initialised heap, heap_end - heap_start is the sum of the
\* deltas passed to sbrk, which is how far the break has moved.
C20_BoundsMatchBreak ==
  heap_start # NULL => heap_end - heap_start = brk - Base

====
